---------------------------- MODULE Spec2Model ----------------------------
(***************************************************************************)
(* Assembly Endgame: a Hangman game.                                       *)
(*                                                                         *)
(*   - Game client: the React component App (App.jsx), its five state      *)
(*     variables, its effects and its event handlers.                      *)
(*   - Word provider proxy: the Express handler of GET /api/word           *)
(*     (backend/index.js).                                                 *)
(*                                                                         *)
(* A word is a sequence of one-character strings.  The array               *)
(* guessedLetters is only ever appended to and searched with includes(),   *)
(* so it is kept as a bag: the order is dropped, the multiplicity of every *)
(* letter is kept.                                                         *)
(***************************************************************************)
EXTENDS Naturals, Sequences, FiniteSets, Bags, TLC

(***************************************************************************)
(* Bounds of the model.                                                    *)
(***************************************************************************)
\* Number of keys of the on-screen keyboard (of 26) the player clicks in Spec.
NumKeys == 9
\* Number of word fetches the client may issue in one behaviour.
MaxFetches == 2

(***************************************************************************)
(* Program constants.                                                      *)
(***************************************************************************)
\* App.jsx: gameOver = winGame || wrongAttemps > 7
MaxWrong == 7
\* index.js: res.status(500)
ErrorStatus == 500
\* Express default status of res.json(data)
OkStatus == 200

\* App.jsx: const alphabet = "qwertyuiopasdfghjklzxcvbnm"
alphabet ==
  << "q","w","e","r","t","y","u","i","o","p","a","s","d","f","g","h","j","k",
     "l","z","x","c","v","b","n","m" >>

\* The letters of all the keys of the keyboard.
Letters == { alphabet[i] : i \in 1..Len(alphabet) }

\* The keyboard renders a button for every letter of alphabet.  In the
\* behaviours of Spec the player clicks the first NumKeys of them only; in
\* those of FullKeyboardSpec the player may click all of them.
Keys == { alphabet[i] : i \in 1..NumKeys }

\* App.jsx: useState(" ")
Placeholder == << " " >>

\* App.jsx: useState(null)
NoLanguage == "null"

(***************************************************************************)
(* Strings: toLowerCase, normalize("NFD") and the removal of the combining *)
(* marks U+0300..U+036F.                                                   *)
(***************************************************************************)
CombiningAcute == "U+0301"
CombiningTilde == "U+0303"
CombiningMarks == { CombiningAcute, CombiningTilde }

\* String.prototype.toLowerCase, one character.
LowerChar(c) ==
  CASE c = "I" -> "i"
    [] c = "W" -> "w"
    [] c = "E" -> "e"
    [] c = "T" -> "t"
    [] c = "Y" -> "y"
    [] c = "O" -> "o"
    [] c = "U" -> "u"
    [] c = "R" -> "r"
    [] c = "Ú" -> "ú"
    [] c = "É" -> "é"
    [] c = "Ñ" -> "ñ"
    [] OTHER -> c

\* Canonical decomposition of one character.
NFDChar(c) ==
  CASE c = "ú" -> << "u", CombiningAcute >>
    [] c = "é" -> << "e", CombiningAcute >>
    [] c = "Ú" -> << "U", CombiningAcute >>
    [] c = "É" -> << "E", CombiningAcute >>
    [] c = "ñ" -> << "n", CombiningTilde >>
    [] c = "Ñ" -> << "N", CombiningTilde >>
    [] OTHER -> << c >>

RECURSIVE toLowerCase(_)
toLowerCase(w) ==
  IF w = << >> THEN << >> ELSE << LowerChar(Head(w)) >> \o toLowerCase(Tail(w))

RECURSIVE normalizeNFD(_)
normalizeNFD(w) ==
  IF w = << >> THEN << >> ELSE NFDChar(Head(w)) \o normalizeNFD(Tail(w))

\* replace(/[U+0300-U+036F]/g, "")
RECURSIVE stripMarks(_)
stripMarks(w) ==
  IF w = << >> THEN << >>
  ELSE (IF Head(w) \in CombiningMarks THEN << >> ELSE << Head(w) >>)
         \o stripMarks(Tail(w))

\* The characters of a word, as a set.
Chars(w) == { w[i] : i \in 1..Len(w) }

\* A variant of wordIncludes that looks at the first character only.
wordIncludesFirstOnly(w, c) == Len(w) >= 1 /\ w[1] = c

\* String.prototype.includes with a one-character argument.
wordIncludes(w, c) == c \in Chars(w)

(***************************************************************************)
(* JSON.  A JSON value is an object with one key whose value is an array   *)
(* of words: {"word": [...]}, {"results": [{"Palabra": ...}, ...]} or      *)
(* {"error": ...}.  A body is a text: either not JSON at all, or the text  *)
(* of a value in compact or in spaced formatting.                          *)
(***************************************************************************)
JsonValue(k, v) == [key |-> k, val |-> v]
NoValue == JsonValue("", << >>)

JsonText(v, spaced) == [json |-> TRUE, spaced |-> spaced, data |-> v]
NotJson == [json |-> FALSE, spaced |-> FALSE, data |-> NoValue]

\* JSON.parse: the value of a JSON text; anything else is a SyntaxError.
jsonParses(body) == body.json
jsonParse(body) == body.data

\* JSON.stringify: the compact text of a value.
jsonStringify(v) == JsonText(v, FALSE)


(***************************************************************************)
(* Upstream providers and what they may answer.                            *)
(***************************************************************************)
EnglishURL == "https://api.api-ninjas.com/v1/randomword"
SpanishURL ==
  "https://www.freeapidatabase.com/View/methodget.php?idTbla=522&idProyect=184"

\* process.env.NINJAS_API_KEY, process.env.SPANISH_API_KEY
NINJAS_API_KEY == "ninjas-secret"
SPANISH_API_KEY == "spanish-secret"

\* Words an upstream provider may return, as it spells them.
\* A phrase of 19 distinct letters and a space.
Phrase ==
  << "t","h","e"," ","q","u","i","c","k"," ","b","r","o","w","n"," ",
     "f","o","x"," ","j","u","m","p","s" >>
UpstreamWordLists ==
  { << << "I" >> >>,
    << << "w", "e" >> >>,
    << << "R", "o", "u", "é" >> >>,
    << Phrase >>,
    << << >> >>,
    << >> }
UpstreamResultLists ==
  { << << "Y" >> >>,
    << << "t", "ú" >>, << "Y", "o" >> >>,
    << << >> >>,
    << >> }
UpstreamErrorValue == JsonValue("error", << << "Invalid API Key." >> >>)

UpstreamValues ==
  { JsonValue("word", ws) : ws \in UpstreamWordLists }
    \cup { JsonValue("results", rs) : rs \in UpstreamResultLists }
    \cup { UpstreamErrorValue }

UpstreamBodies ==
  { JsonText(v, sp) : v \in UpstreamValues, sp \in BOOLEAN } \cup { NotJson }

UpstreamStatuses == { 200, 401, 503 }

\* The outcome of the proxy's fetch(): the promise rejects (the provider is
\* unreachable) or resolves with a response of any status.
Rejected == [resolved |-> FALSE, status |-> 0, body |-> NotJson]
UpstreamOutcomes ==
  { Rejected }
    \cup { [resolved |-> TRUE, status |-> st, body |-> b] :
             st \in UpstreamStatuses, b \in UpstreamBodies }

(***************************************************************************)
(* Word provider proxy: app.get('/api/word', ...).                         *)
(***************************************************************************)
\* req.query.lang when the query has no lang.
Absent == "<absent>"
QueryLangs == { Absent, "", "en", "es", "fr" }

\* A variant of langOf whose default is Spanish.
langOfDefaultEs(q) == IF q = Absent \/ q = "" THEN "es" ELSE q

\* const lang = req.query.lang || "en"
langOf(q) == IF q = Absent \/ q = "" THEN "en" ELSE q

\* The request the handler sends upstream: URL, header name, header value.
upstreamRequest(lang) ==
  IF lang = "en"
    THEN [url |-> EnglishURL, header |-> "X-Api-Key",
          value |-> << NINJAS_API_KEY >>]
    ELSE [url |-> SpanishURL, header |-> "Authorization",
          value |-> << "Bearer", SPANISH_API_KEY >>]

GenericError ==
  JsonValue("error", << << "Error retrieving word from external API" >> >>)

\* A variant of errorResponse that reports the error it caught.
errorResponseOfErr(err) ==
  [status |-> ErrorStatus, body |-> jsonStringify(JsonValue("error", << << err >> >>))]

\* catch (err) { res.status(500).json({ error: '...' }) }
errorResponse(err) ==
  [status |-> ErrorStatus, body |-> jsonStringify(GenericError)]

\* const data = await response.json(); res.json(data)
relayResponse(body) ==
  [status |-> OkStatus, body |-> jsonStringify(jsonParse(body))]

\* The response of the handler to one request, given the outcome upstream.
proxyResponse(o) ==
  IF ~o.resolved THEN errorResponse("FetchError")
  ELSE IF ~jsonParses(o.body) THEN errorResponse("SyntaxError")
  ELSE relayResponse(o.body)

(***************************************************************************)
(* State.                                                                  *)
(***************************************************************************)
VARIABLES
  currentWord,     \* App: the target word
  guessedLetters,  \* App: the letters guessed so far (a bag)
  winGame,         \* App: the win flag
  wrongAttemps,    \* App: the number of wrong guesses
  language,        \* App: NoLanguage, "en" or "es"
  inflight,        \* the getNewWord() calls not yet finished, by number
  bodyPending,     \* those of them whose fetch resolved, awaiting res.json()
  issued,          \* how many getNewWord() calls were made so far
  wordFrom,        \* the call whose response set currentWord (0: none did)
  resetFetch,      \* the call made by the latest resetGame() (0: no reset yet)
  lastEvent,       \* the kind of the latest event the client handled
  fetchLang,       \* the language the latest getNewWord() call asked for
  confettiFired,   \* how many times the latest event made confetti() run
  pc,              \* proxy: where the handler of the current request stands
  query,           \* proxy: req.query.lang of the current request
  upstreamCalls,   \* proxy: the upstream requests made for the current request
  upstream,        \* proxy: the outcome of the upstream request
  responses        \* proxy: the responses sent to the current request

clientVars ==
  << currentWord, guessedLetters, winGame, wrongAttemps, language, inflight,
     bodyPending, issued, wordFrom, resetFetch, lastEvent, fetchLang,
     confettiFired >>
proxyVars == << pc, query, upstreamCalls, upstream, responses >>
vars == << clientVars, proxyVars >>

Init ==
  /\ currentWord = Placeholder
  /\ guessedLetters = EmptyBag
  /\ winGame = FALSE
  /\ wrongAttemps = 0
  /\ language = NoLanguage
  /\ inflight = {}
  /\ bodyPending = {}
  /\ issued = 0
  /\ wordFrom = 0
  /\ resetFetch = 0
  /\ lastEvent = "mount"
  /\ fetchLang = NoLanguage
  /\ confettiFired = 0
  /\ pc = "idle"
  /\ query = Absent
  /\ upstreamCalls = << >>
  /\ upstream = Rejected
  /\ responses = << >>

(***************************************************************************)
(* Word provider proxy: the steps of the handler.                          *)
(***************************************************************************)
\* A request arrives; the handler runs up to its first await.
ProxyRequest(q) ==
  /\ pc \in { "idle", "sent" }
  /\ query' = q
  /\ upstreamCalls' = << upstreamRequest(langOf(q)) >>
  /\ responses' = << >>
  /\ upstream' = Rejected
  /\ pc' = "fetch"
  /\ UNCHANGED clientVars

\* await fetch(...) settles.
ProxyFetchSettled(o) ==
  /\ pc = "fetch"
  /\ upstream' = o
  /\ IF o.resolved
       THEN /\ pc' = "json"
            /\ UNCHANGED responses
       ELSE /\ pc' = "sent"
            /\ responses' = Append(responses, errorResponse("FetchError"))
  /\ UNCHANGED << query, upstreamCalls >>
  /\ UNCHANGED clientVars

\* await response.json() settles.
ProxyJsonSettled ==
  /\ pc = "json"
  /\ responses' =
       Append(responses,
              IF jsonParses(upstream.body)
                THEN relayResponse(upstream.body)
                ELSE errorResponse("SyntaxError"))
  /\ pc' = "sent"
  /\ UNCHANGED << query, upstreamCalls, upstream >>
  /\ UNCHANGED clientVars

ProxyNext ==
  \/ \E q \in QueryLangs : ProxyRequest(q)
  \/ \E o \in UpstreamOutcomes : ProxyFetchSettled(o)
  \/ ProxyJsonSettled

ProxySpec == Init /\ [][ProxyNext]_vars

(***************************************************************************)
(* Game client: the component App.                                         *)
(***************************************************************************)
\* A variant of gameOver that tolerates one more miss.
gameOverOneLate == winGame \/ wrongAttemps > MaxWrong + 1

\* const gameOver = winGame || wrongAttemps > 7
gameOver == winGame \/ wrongAttemps > MaxWrong

\* guessedLetters.includes(letter)
includes(guessed, letter) == BagIn(letter, guessed)

\* currentWord.split("").every(letter => guessedLetters.includes(letter))
hasWon(word, guessed) == \A i \in 1..Len(word) : includes(guessed, word[i])

\* useEffect(..., [guessedLetters]): if (hasWon) setWinGame(true)
winEffect(word, guessed, win) == IF hasWon(word, guessed) THEN TRUE ELSE win

\* useEffect(..., [winGame]): runs when winGame changed between two renders;
\* if (winGame) confetti(...).  The number of confetti() calls.
confettiEffect(before, after) == IF before # after /\ after THEN 1 ELSE 0

\* A variant of keyboardEnabled whose buttons are never disabled.
keyboardNeverDisabled == language # NoLanguage

\* The keyboard is rendered once a language is chosen; its buttons carry
\* disabled={gameOver}.
keyboardEnabled == language # NoLanguage /\ ~gameOver

\* A variant of newGameShown that renders the button in every game view.
newGameAlwaysShown == language # NoLanguage

\* The New Game button is rendered in the game view when gameOver.
newGameShown == language # NoLanguage /\ gameOver

\* The word getNewWord() takes from the response data; ok is FALSE where the
\* code throws.  k is Math.floor(Math.random() * spanishWords.length) + 1.
extractWord(lang, data, k) ==
  IF lang = "en"
    THEN IF data.key = "word" /\ Len(data.val) >= 1
           THEN [ok |-> TRUE, word |-> toLowerCase(data.val[1])]
           ELSE [ok |-> FALSE, word |-> << >>]
  ELSE IF lang = "es"
    THEN IF data.key = "results" /\ k \in 1..Len(data.val)
           THEN [ok |-> TRUE,
                 word |-> stripMarks(normalizeNFD(toLowerCase(data.val[k])))]
           ELSE [ok |-> FALSE, word |-> << >>]
  ELSE [ok |-> TRUE, word |-> << >>]

\* The language picker: setLanguage(code), then useEffect(..., [language])
\* calls getNewWord().
SelectLanguage(code) ==
  /\ language = NoLanguage
  /\ language' = code
  /\ issued' = issued + 1
  /\ inflight' = inflight \cup { issued + 1 }
  /\ fetchLang' = code
  /\ lastEvent' = "select"
  /\ UNCHANGED << currentWord, guessedLetters, winGame, wrongAttemps, wordFrom,
                  resetFetch, bodyPending >>
  /\ UNCHANGED proxyVars
  /\ confettiFired' = confettiEffect(winGame, winGame')

\* A variant of checkGuessedLetter without the test for a letter already
\* guessed.
checkGuessedLetterAlways(letter) ==
  /\ keyboardEnabled
  /\ guessedLetters' = guessedLetters (+) SetToBag({ letter })
  /\ wrongAttemps' =
       IF ~wordIncludes(currentWord, letter)
         THEN wrongAttemps + 1
         ELSE wrongAttemps
  /\ winGame' = winEffect(currentWord, guessedLetters', winGame)
  /\ lastEvent' = "guess"
  /\ UNCHANGED << currentWord, language, inflight, bodyPending, issued,
                  wordFrom, resetFetch, fetchLang >>
  /\ UNCHANGED proxyVars
  /\ confettiFired' = confettiEffect(winGame, winGame')

\* checkGuessedLetter(event) for the key of a letter, then the effect on
\* guessedLetters.
checkGuessedLetter(letter) ==
  /\ keyboardEnabled
  /\ IF ~includes(guessedLetters, letter)
       THEN /\ guessedLetters' = guessedLetters (+) SetToBag({ letter })
            /\ wrongAttemps' =
                 IF ~wordIncludes(currentWord, letter)
                   THEN wrongAttemps + 1
                   ELSE wrongAttemps
            /\ winGame' = winEffect(currentWord, guessedLetters', winGame)
            /\ lastEvent' = "guess"
       ELSE /\ UNCHANGED << guessedLetters, wrongAttemps, winGame >>
            /\ lastEvent' = "ignored"
  /\ UNCHANGED << currentWord, language, inflight, bodyPending, issued,
                  wordFrom, resetFetch, fetchLang >>
  /\ UNCHANGED proxyVars
  /\ confettiFired' = confettiEffect(winGame, winGame')

\* resetGame(): getNewWord() is called (and not awaited), the three setters
\* run, and the effect on guessedLetters runs against the word still held.
\* The effect on winGame runs after the render of the setters and again
\* after the render of what the effect on guessedLetters set.
resetGame ==
  /\ newGameShown
  /\ issued < MaxFetches
  /\ issued' = issued + 1
  /\ inflight' = inflight \cup { issued + 1 }
  /\ resetFetch' = issued + 1
  /\ guessedLetters' = EmptyBag
  /\ wrongAttemps' = 0
  /\ winGame' = winEffect(currentWord, EmptyBag, FALSE)
  /\ confettiFired' =
       confettiEffect(winGame, FALSE) + confettiEffect(FALSE, winGame')
  /\ fetchLang' = language
  /\ lastEvent' = "reset"
  /\ UNCHANGED << currentWord, language, wordFrom, bodyPending >>
  /\ UNCHANGED proxyVars

\* How many records a Spanish response holds at most.
MaxResults == 2

\* What getNewWord() arrives at once res.json() settles, for a response the
\* proxy sent from the outcome upstream: the body is parsed and the word is
\* taken from the data.
getNewWordResult(lang, o, k) ==
  LET res == proxyResponse(o)
  IN  IF jsonParses(res.body)
        THEN extractWord(lang, jsonParse(res.body), k)
        ELSE [ok |-> FALSE, word |-> << >>]

\* Every result a call of getNewWord() may arrive at, per language.
ResultsEn ==
  { getNewWordResult("en", o, k) :
      o \in UpstreamOutcomes, k \in 1..MaxResults }
ResultsEs ==
  { getNewWordResult("es", o, k) :
      o \in UpstreamOutcomes, k \in 1..MaxResults }
Results(lang) == IF lang = "en" THEN ResultsEn ELSE ResultsEs

\* await fetch(...) of call id settles.  When the proxy was reached,
\* getNewWord() calls res.json() and is suspended again, and no setter has
\* run; when it was not, the call ends with the rejection.
getNewWordFetchSettled(id, reached) ==
  /\ id \in inflight \ bodyPending
  /\ IF reached
       THEN /\ bodyPending' = bodyPending \cup { id }
            /\ UNCHANGED inflight
            /\ lastEvent' = "response"
       ELSE /\ inflight' = inflight \ { id }
            /\ UNCHANGED bodyPending
            /\ lastEvent' = "fetchFailed"
  /\ UNCHANGED << currentWord, wordFrom, guessedLetters, winGame, wrongAttemps,
                  language, issued, resetFetch, fetchLang >>
  /\ UNCHANGED proxyVars
  /\ confettiFired' = confettiEffect(winGame, winGame')

\* A variant of getNewWordJsonSettled that evaluates the win against the new word.
getNewWordJsonSettledRecheck(id, got) ==
  /\ id \in bodyPending
  /\ inflight' = inflight \ { id }
  /\ bodyPending' = bodyPending \ { id }
  /\ IF got.ok
       THEN /\ currentWord' = got.word
            /\ wordFrom' = id
            /\ winGame' = winEffect(got.word, guessedLetters, winGame)
            /\ lastEvent' = "word"
       ELSE /\ UNCHANGED << currentWord, wordFrom, winGame >>
            /\ lastEvent' = "fetchFailed"
  /\ UNCHANGED << guessedLetters, wrongAttemps, language, issued, resetFetch,
                  fetchLang >>
  /\ UNCHANGED proxyVars
  /\ confettiFired' = confettiEffect(winGame, winGame')

\* await res.json() of call id settles; the rest of getNewWord() runs:
\* setCurrentWord(word), unless the code threw before.
getNewWordJsonSettled(id, got) ==
  /\ id \in bodyPending
  /\ inflight' = inflight \ { id }
  /\ bodyPending' = bodyPending \ { id }
  /\ IF got.ok
       THEN /\ currentWord' = got.word
            /\ wordFrom' = id
            /\ lastEvent' = "word"
       ELSE /\ UNCHANGED << currentWord, wordFrom >>
            /\ lastEvent' = "fetchFailed"
  /\ UNCHANGED << guessedLetters, winGame, wrongAttemps, language, issued,
                  resetFetch, fetchLang >>
  /\ UNCHANGED proxyVars
  /\ confettiFired' = confettiEffect(winGame, winGame')

Next ==
  \/ \E code \in { "en", "es" } : SelectLanguage(code)
  \/ \E letter \in Keys : checkGuessedLetter(letter)
  \/ resetGame
  \/ \E id \in inflight, reached \in BOOLEAN :
       getNewWordFetchSettled(id, reached)
  \/ \E id \in bodyPending, got \in Results(language) :
       getNewWordJsonSettled(id, got)

Spec == Init /\ [][Next]_vars

\* The positions on the keyboard of the keys not guessed yet.
unguessed ==
  { i \in 1..Len(alphabet) : ~includes(guessedLetters, alphabet[i]) }

\* A player who keeps guessing letters not yet guessed, taking the keyboard
\* from either end: the first or the last key not guessed yet.
endKeys ==
  IF unguessed = {} THEN {}
  ELSE { alphabet[CHOOSE i \in unguessed : \A j \in unguessed : i <= j],
         alphabet[CHOOSE i \in unguessed : \A j \in unguessed : i >= j] }

\* The component App with all the 26 keys of its keyboard, under that player.
FullKeyboardNext ==
  \/ \E code \in { "en", "es" } : SelectLanguage(code)
  \/ \E letter \in endKeys : checkGuessedLetter(letter)
  \/ resetGame
  \/ \E id \in inflight, reached \in BOOLEAN :
       getNewWordFetchSettled(id, reached)
  \/ \E id \in bodyPending, got \in Results(language) :
       getNewWordJsonSettled(id, got)

FullKeyboardSpec == Init /\ [][FullKeyboardNext]_vars

(***************************************************************************)
(* Properties of the game client, checked under Spec.                      *)
(***************************************************************************)

\* C1: while a word fetch is in flight no guess is accepted: a step that
\* leaves the set of fetches in flight non-empty and as it was changes neither
\* guessedLetters nor wrongAttemps.  The code accepts such guesses.
C1_NoGuessWhileFetching ==
  [][(inflight # {} /\ inflight' = inflight)
       => UNCHANGED << guessedLetters, wrongAttemps >>]_vars

\* C2: in every reachable state the win flag is true iff every character of
\* the current word is among the guessed letters.  The code breaks it.
C2_WinIffAllGuessed ==
  winGame <=> (\A c \in Chars(currentWord) : CopiesIn(c, guessedLetters) >= 1)

\* C3: once the game is over (win flag true or more than 7 wrong attempts),
\* guessedLetters, wrongAttemps and the win flag stay as they are in every
\* step but a reset.
C3_NoGuessOnceOver ==
  [][(winGame \/ wrongAttemps > 7)
       => \/ UNCHANGED << guessedLetters, wrongAttemps, winGame >>
          \/ lastEvent' = "reset"]_vars

\* C3, witness: the game is lost, and a key not guessed yet is left to click.
C3_Witness ==
  /\ language # NoLanguage
  /\ wrongAttemps > 7
  /\ \E l \in Keys : CopiesIn(l, guessedLetters) = 0

\* C4: whenever the game is playable after a reset, the current word is the
\* one returned by the fetch that the latest reset issued.  In the code the
\* game is playable right after the reset, on the word held before it.
C4_PlayableAfterResetHasFreshWord ==
  (resetFetch # 0 /\ language # NoLanguage /\ ~winGame /\ wrongAttemps <= 7)
    => wordFrom = resetFetch

\* C5, as claimed: every step that changes wrongAttemps is a guess of a letter
\* that is not in the current word, and raises it by exactly 1.
C5_OnlyGuessesChangeWrong ==
  [][wrongAttemps' # wrongAttemps
       => /\ wrongAttemps' = wrongAttemps + 1
          /\ \E l \in Keys :
               /\ l \notin Chars(currentWord)
               /\ guessedLetters' = guessedLetters (+) SetToBag({ l })]_vars

\* C5, amended: every step that changes wrongAttemps is either a reset, taken
\* from a finished game and setting it to 0, or a guess of a letter that is
\* not in the current word, raising it by exactly 1.
C5_WrongChangesByMissOrReset ==
  [][wrongAttemps' # wrongAttemps
       => \/ /\ wrongAttemps' = wrongAttemps + 1
             /\ \E l \in Keys :
                  /\ l \notin Chars(currentWord)
                  /\ guessedLetters' = guessedLetters (+) SetToBag({ l })
          \/ /\ lastEvent' = "reset"
             /\ winGame \/ wrongAttemps > 7
             /\ wrongAttemps' = 0]_vars

\* C5, witness: after a reset has cleared the counter, a miss against a
\* fetched word has raised it to 1.
C5_Witness ==
  /\ resetFetch # 0
  /\ lastEvent = "guess"
  /\ wrongAttemps = 1
  /\ currentWord # Placeholder

\* C6: a click on a letter already guessed changes nothing; any other change
\* of guessedLetters but a reset adds exactly one letter that was not in it;
\* guessedLetters never holds a letter twice.
C6_GuessAddsOneNewLetter ==
  [][/\ \A l \in Keys : CopiesIn(l, guessedLetters') <= 1
     /\ lastEvent' = "ignored"
          => UNCHANGED << guessedLetters, wrongAttemps, winGame >>
     /\ guessedLetters' # guessedLetters
          => \/ lastEvent' = "reset" /\ guessedLetters' = EmptyBag
             \/ \E l \in Keys :
                  /\ CopiesIn(l, guessedLetters) = 0
                  /\ guessedLetters' = guessedLetters (+) SetToBag({ l })
                  /\ BagCardinality(guessedLetters')
                       = BagCardinality(guessedLetters) + 1]_vars

\* C6, witness: a click on a letter already guessed has just been handled.
C6_Witness ==
  /\ lastEvent = "ignored"
  /\ BagCardinality(guessedLetters) >= 1

\* C7: the game is over exactly when the win flag is true or wrongAttemps
\* exceeds 7; with 7 misses and no win the keyboard still takes a guess; and
\* wrongAttemps never exceeds 8.
C7_EighthMissEnds ==
  /\ wrongAttemps <= 8
  /\ gameOver <=> (winGame \/ wrongAttemps > 7)
  /\ (language # NoLanguage /\ ~winGame /\ wrongAttemps = 7)
       => ENABLED (\E l \in Keys : checkGuessedLetter(l))

\* C7, witness: with a fetched word on the board, the eighth miss has just
\* ended the game.
C7_Witness ==
  /\ lastEvent = "guess"
  /\ wordFrom # 0
  /\ wrongAttemps = 8
  /\ ~winGame
  /\ gameOver

(***************************************************************************)
(* Properties of the proxy, checked under ProxySpec.                       *)
(***************************************************************************)
GenericErrorText ==
  [json |-> TRUE, spaced |-> FALSE,
   data |-> [key |-> "error",
             val |-> << << "Error retrieving word from external API" >> >>]]

\* C8: every request gets one response and at most one upstream call: 200
\* with the upstream JSON value when the upstream fetch resolved and its body
\* parsed, else 500 with the one fixed error body.
C8_OneResponsePerRequest ==
  /\ Len(upstreamCalls) <= 1
  /\ Len(responses) <= 1
  /\ pc # "sent" => responses = << >>
  /\ pc = "sent" =>
       /\ Len(responses) = 1
       /\ IF upstream.resolved /\ upstream.body.json
            THEN /\ responses[1].status = 200
                 /\ responses[1].body.json
                 /\ responses[1].body.data = upstream.body.data
            ELSE /\ responses[1].status = 500
                 /\ responses[1].body = GenericErrorText

\* C8, witness: a request was answered after the provider sent a body that is
\* not JSON.
C8_Witness ==
  /\ pc = "sent"
  /\ upstream.resolved
  /\ ~upstream.body.json
  /\ Len(responses) = 1

\* C9: whenever the upstream request failed (provider unreachable, or a 4xx or
\* 5xx answer), the proxy answers with the generic 500.  The code relays a
\* 4xx or 5xx answer with a JSON body as a 200.
C9_FailuresCollapse ==
  (pc = "sent" /\ (~upstream.resolved \/ upstream.status >= 400))
    => /\ Len(responses) = 1
       /\ responses[1].status = 500
       /\ responses[1].body = GenericErrorText

\* C10: a request without lang, like one with lang=en, goes to the English
\* provider with the X-Api-Key header holding the English key; lang=es goes to
\* the Spanish provider with the bearer token; no provider is sent the other's
\* credential.
C10_ProviderByLang ==
  pc # "idle" =>
    /\ Len(upstreamCalls) = 1
    /\ query \in { Absent, "en" } =>
         upstreamCalls[1] = [url |-> EnglishURL, header |-> "X-Api-Key",
                             value |-> << NINJAS_API_KEY >>]
    /\ query = "es" =>
         upstreamCalls[1] = [url |-> SpanishURL, header |-> "Authorization",
                             value |-> << "Bearer", SPANISH_API_KEY >>]
    /\ upstreamCalls[1].url = EnglishURL
         => SPANISH_API_KEY \notin Chars(upstreamCalls[1].value)
    /\ upstreamCalls[1].url = SpanishURL
         => NINJAS_API_KEY \notin Chars(upstreamCalls[1].value)

\* C10, witness: a request without lang has been answered.
C10_Witness ==
  /\ pc = "sent"
  /\ query = Absent
  /\ Len(upstreamCalls) = 1
  /\ Len(responses) = 1

(***************************************************************************)
(* Further properties of the game client, checked under Spec.              *)
(***************************************************************************)

\* C11: for both languages the word set from a provider response is lowercase
\* with the diacritical marks stripped: it holds nothing but the letters a..z.
\* The code strips the marks of Spanish words only.
C11_WordIsPlainLowercase ==
  wordFrom # 0 => Chars(currentWord) \subseteq Letters

\* C12: the completion of a word fetch (a step that takes a call out of the
\* calls in flight), and the arrival of its response before that, leave
\* guessedLetters, wrongAttemps, the win flag and the language as they were.
C12_FetchCompletionKeepsGuessState ==
  [][(\/ inflight' # inflight /\ inflight' \subseteq inflight
      \/ bodyPending' # bodyPending)
       => UNCHANGED << guessedLetters, wrongAttemps, winGame, language >>]_vars

\* C12, witness: a word has just arrived under guesses made before it; every
\* letter of it is guessed and the win flag is still down.
C12_Witness ==
  /\ lastEvent = "word"
  /\ wrongAttemps >= 1
  /\ \A c \in Chars(currentWord) : CopiesIn(c, guessedLetters) >= 1
  /\ ~winGame

\* C13: after any failed fetch, whether language selection or reset issued
\* it, the current word is the placeholder, so that no guess against a real
\* word is possible.  In the code a fetch that fails after a reset leaves the
\* word held before the reset on the board, with the keyboard enabled.
C13_FailedFetchShowsPlaceholder ==
  lastEvent = "fetchFailed" => currentWord = Placeholder

\* C14: a reset is taken only from a finished game; the language is set only
\* while unset, to en or es, and never changes afterwards; every word fetch
\* asks for the selected language, en or es.
C14_ResetAndLanguageOrder ==
  [][/\ resetFetch' # resetFetch
          => (language # NoLanguage /\ (winGame \/ wrongAttemps > 7))
     /\ language' # language
          => (language = NoLanguage /\ language' \in { "en", "es" })
     /\ issued' # issued
          => (fetchLang' \in { "en", "es" } /\ fetchLang' = language')]_vars

\* C14, witness: after a reset, a second fetch was made for the language
\* chosen at the start.
C14_Witness ==
  /\ resetFetch # 0
  /\ issued >= 2
  /\ language = "es"
  /\ fetchLang = "es"

\* C15: confetti() runs once in a step that raises the win flag and in no
\* other step; not on mount, not on a guess that does not win, not when a
\* fetch completes, not on reset.  In the code a reset on the empty word
\* raises the flag again at once and fires the confetti.
C15_ConfettiOncePerWin ==
  /\ lastEvent = "mount" => confettiFired = 0
  /\ [][/\ confettiFired' = IF ~winGame /\ winGame' THEN 1 ELSE 0
        /\ lastEvent' \in { "select", "ignored", "response", "word",
                            "fetchFailed", "reset" }
             => confettiFired' = 0]_vars

\* C16: the win flag and more than 7 wrong attempts never hold together.
\* In the code a miss made after a word arrived under letters guessed before
\* it can raise both at once.
C16_WonAndLostExclusive == ~(winGame /\ wrongAttemps > 7)

\* C17: in every reachable state wrongAttemps is the number of guessed letters
\* that are not in the current word (the keys shown red).  The code counts a
\* miss against the word held at the click and never recounts.
C17_WrongCountsRedKeys ==
  wrongAttemps =
    Cardinality({ l \in BagToSet(guessedLetters) : l \notin Chars(currentWord) })

\* C18: at most one word fetch is in flight at any time, and the response to an
\* earlier fetch never replaces the word of a later one.  In the code a reset
\* can be taken while the fetch of the reset before it is in flight.
C18_OneFetchInFlight ==
  /\ [](Cardinality(inflight) <= 1)
  /\ [][wordFrom' >= wordFrom]_vars

\* C19: a game on a fetched word is over (won or lost) once every letter of
\* the keyboard is guessed, that is after at most 26 accepted guesses.  In
\* the code a word holding a character that no key produces, with fewer
\* than 8 letters of the keyboard outside it, ends neither won nor lost.
C19_GameEndsWhenKeysRunOut ==
  (language # NoLanguage /\ wordFrom # 0
     /\ \A l \in Letters : CopiesIn(l, guessedLetters) >= 1)
    => (winGame \/ wrongAttemps > 7)

=============================================================================
